---- MODULE Spec2Model ----
(***************************************************************************)
(* Reference-id issuance and diagnostics persistence of network_stats      *)
(* (server.js): POST /api/diagnostics, GET /api/diagnostics/:id, the id    *)
(* generator and the profiles directory they share.                        *)
(*                                                                         *)
(* Execution model.  Node runs the JavaScript of all handlers on one       *)
(* thread: a handler runs from an I/O callback to its first await on an    *)
(* I/O promise, and awaits on already-resolved promises (await             *)
(* isIdUnique(id)) resume in microtasks, which are drained before any      *)
(* other handler can start or resume.  The file operations of              *)
(* fs.promises.writeFile / readFile (open, write, read) run on the libuv   *)
(* thread pool and interleave freely with the JavaScript thread and with   *)
(* each other; existsSync runs on the JavaScript thread.                   *)
(***************************************************************************)
EXTENDS Integers, Sequences, FiniteSets, TLC

VARIABLES files, req, started, writers, persisted, probe, page

vars == <<files, req, started, writers, persisted, probe, page>>

\* ------------------------------------------------------------------ bounds
\* number of requests that arrive in a behaviour
MaxRequests == 3
\* number of distinct outcomes of Math.random() that are explored
NumDraws == 2

Reqs == 1..MaxRequests

\* ------------------------------------------------------- JavaScript values
Undefined == [t |-> "undefined"]
Null == [t |-> "null"]
Str(s) == [t |-> "string", s |-> s]

\* truthiness of a value (undefined, null and "" are falsy)
Truthy(v) ==
  CASE v.t = "undefined" -> FALSE
    [] v.t = "null" -> FALSE
    [] v.t = "string" -> v.s # <<>>
    [] OTHER -> TRUE

\* typeof v
TypeOf(v) ==
  CASE v.t = "undefined" -> "undefined"
    [] v.t = "string" -> "string"
    [] v.t = "number" -> "number"
    [] OTHER -> "object"

\* a || b
Or(a, b) == IF Truthy(a) THEN a ELSE b

\* ------------------------------------------------------------------ strings
\* A string is the sequence of its characters.
Rep(c, n) == [i \in 1..n |-> c]

Upper == {"A","B","C","D","E","F","G","H","I","J","K","L","M",
          "N","O","P","Q","R","S","T","U","V","W","X","Y","Z"}
Digit == {"0","1","2","3","4","5","6","7","8","9"}

\* index of the first "," of s, or Len(s) + 1
RECURSIVE CommaAt(_, _)
CommaAt(s, i) ==
  IF i > Len(s) THEN i ELSE IF s[i] = "," THEN i ELSE CommaAt(s, i + 1)

\* s.split(',')[0]
SplitFirst(s) == SubSeq(s, 1, CommaAt(s, 1) - 1)

\* the white space trim() removes (of what a header value can hold)
WhiteSpace == {" ", "\t"}

RECURSIVE TrimLeft(_)
TrimLeft(s) ==
  IF s # <<>> /\ Head(s) \in WhiteSpace THEN TrimLeft(Tail(s)) ELSE s

RECURSIVE TrimRight(_)
TrimRight(s) ==
  IF s # <<>> /\ s[Len(s)] \in WhiteSpace
    THEN TrimRight(SubSeq(s, 1, Len(s) - 1))
    ELSE s

\* a trim that leaves trailing white space
TrimLeftOnly(s) == TrimLeft(s)

\* s.trim()
Trim(s) == TrimRight(TrimLeft(s))

\* --------------------------------------------------------- the id generator
\* resolution at which the outcome of Math.random() in [0, 1) is modelled
RandScale == 1000

\* the outcomes of Math.random() that are explored, as multiples of 1/RandScale
RandomValues == {k * (RandScale \div NumDraws) : k \in 0..(NumDraws - 1)}

groupLength == 5
numGroups == 3

\* the 15 outcomes one call of generateReferenceId consumes
RandomDraws == {Rep(u, numGroups * groupLength) : u \in RandomValues}

\* an alphabet that has lost its last symbol
charsNoNine == <<"A","B","C","D","E","F","G","H","J","K","M","N","P","Q","R",
                 "S","T","U","V","W","X","Y","Z","2","3","4","5","6","7","8">>

\* an alphabet that keeps the letter L
charsWithL == <<"A","B","C","D","E","F","G","H","J","K","L","M","N","P","Q","R",
                "S","T","U","V","W","X","Y","Z","2","3","4","5","6","7","8",
                "9">>

chars == <<"A","B","C","D","E","F","G","H","J","K","M","N","P","Q","R","S",
           "T","U","V","W","X","Y","Z","2","3","4","5","6","7","8","9">>

\* chars.charAt(Math.floor(Math.random() * chars.length)) for the outcome u
Pick(u) == chars[((u * Len(chars)) \div RandScale) + 1]

\* group i (0-based) of the id drawn with the outcomes rnd
Group(rnd, i) == [j \in 1..groupLength |-> Pick(rnd[i * groupLength + j])]

RECURSIVE JoinGroups(_)
JoinGroups(gs) ==
  IF Len(gs) = 0 THEN <<>>
  ELSE IF Len(gs) = 1 THEN gs[1]
  ELSE gs[1] \o <<"-">> \o JoinGroups(Tail(gs))

generateReferenceId(rnd) ==
  JoinGroups([i \in 1..numGroups |-> Group(rnd, i - 1)])

\* the ids the explored outcomes of Math.random() produce
GenIds == {generateReferenceId(rnd) : rnd \in RandomDraws}

\* a test that accepts letters only
FormatOkLettersOnly(id) ==
  /\ Len(id) = 17
  /\ \A i \in 1..17 : IF i \in {6, 12} THEN id[i] = "-" ELSE id[i] \in Upper

\* a test that accepts only the symbols the generator draws
FormatOkAlphabetOnly(id) ==
  /\ Len(id) = 17
  /\ \A i \in 1..17 :
       IF i \in {6, 12} THEN id[i] = "-"
       ELSE \E k \in 1..Len(chars) : id[i] = chars[k]

\* /^[A-Z0-9]{5}-[A-Z0-9]{5}-[A-Z0-9]{5}$/.test(id)
FormatOk(id) ==
  /\ Len(id) = 17
  /\ \A i \in 1..17 :
       IF i \in {6, 12} THEN id[i] = "-" ELSE id[i] \in Upper \cup Digit

\* ---------------------------------------------------------------- the store
\* files maps the name of every file of the profiles directory (the id; the
\* ".json" suffix is the same for all) to its content, a sequence of chunks.

\* existsSync(path.join(PROFILES_DIR, `${id}.json`))
existsSync(id) == id \in DOMAIN files

isIdUnique(id) == ~existsSync(id)

maxAttempts == 10

\* --------------------------------------------------------------- requests
\* A header name is the pair of its first two characters and the rest, so
\* that name.startsWith('x-') is a test on the name itself.
startsWithX(name) == name[1] = "x-"

proxyHeaders ==
  << <<"x-", "forwarded-for">>, <<"x-", "forwarded-proto">>,
     <<"x-", "forwarded-host">>, <<"x-", "forwarded-port">>,
     <<"x-", "real-ip">>, <<"x-", "client-ip">>,
     <<"tr", "ue-client-ip">>, <<"fo", "rwarded">> >>

cloudflareHeaders ==
  << <<"cf", "-connecting-ip">>, <<"cf", "-ipcountry">>, <<"cf", "-ray">>,
     <<"cf", "-visitor">>, <<"cf", "-request-id">>,
     <<"cf", "-connecting-ipv6">> >>

loadBalancerHeaders ==
  << <<"x-", "azure-clientip">>, <<"x-", "azure-socketip">>,
     <<"x-", "arr-log-id">>, <<"x-", "arr-ssl">> >>

cdnHeaders ==
  << <<"vi", "a">>, <<"x-", "cdn">>, <<"x-", "cache">>,
     <<"x-", "cache-hits">>, <<"x-", "served-by">>, <<"x-", "timer">>,
     <<"x-", "edge-location">> >>

otherHeaders ==
  << <<"ac", "cept-encoding">>, <<"ac", "cept-language">>,
     <<"co", "nnection">>, <<"ho", "st">>, <<"re", "ferer">>,
     <<"or", "igin">> >>

allHeaders ==
  proxyHeaders \o cloudflareHeaders \o loadBalancerHeaders \o cdnHeaders
    \o otherHeaders

\* req.get(name): the value of the header, or undefined
get(rq, name) ==
  IF name \in DOMAIN rq.headers THEN Str(rq.headers[name]) ELSE Undefined

\* the first loop of extractNetworkHeaders over allHeaders[i..]
RECURSIVE CopyListed(_, _, _)
CopyListed(rq, i, headers) ==
  IF i > Len(allHeaders) THEN headers
  ELSE LET headerName == allHeaders[i]
           value == get(rq, headerName)
       IN CopyListed(rq, i + 1,
            IF Truthy(value)
              THEN [n \in DOMAIN headers \cup {headerName} |->
                      IF n = headerName THEN value.s ELSE headers[n]]
              ELSE headers)

\* an extraction that stops after its first loop
extractListedOnly(rq) == CopyListed(rq, 1, <<>>)

\* extractNetworkHeaders(req): the second loop adds every x- header the
\* first left without a (truthy) entry
extractNetworkHeaders(rq) ==
  LET headers == CopyListed(rq, 1, <<>>)
      missed == {n \in DOMAIN rq.headers :
                   /\ startsWithX(n)
                   /\ ~(n \in DOMAIN headers /\ headers[n] # <<>>)}
  IN [n \in DOMAIN headers \cup missed |->
        IF n \in missed THEN rq.headers[n] ELSE headers[n]]

\* x-forwarded-for ?.split(',')[0]?.trim()
ForwardedFirst(rq) ==
  LET v == get(rq, <<"x-", "forwarded-for">>)
  IN IF v.t = "undefined" THEN Undefined ELSE Str(Trim(SplitFirst(v.s)))

\* a resolution that consults x-forwarded-for before cf-connecting-ip
realClientIpForwardedFirst(rq) ==
  Or(ForwardedFirst(rq),
    Or(get(rq, <<"cf", "-connecting-ip">>),
      Or(get(rq, <<"x-", "real-ip">>),
        Or(get(rq, <<"tr", "ue-client-ip">>),
          Or(rq.ip, rq.remoteAddress)))))

realClientIp(rq) ==
  Or(get(rq, <<"cf", "-connecting-ip">>),
    Or(ForwardedFirst(rq),
      Or(get(rq, <<"x-", "real-ip">>),
        Or(get(rq, <<"tr", "ue-client-ip">>),
          Or(rq.ip, rq.remoteAddress)))))

\* the request contexts (headers, peer address) that are explored
Contexts ==
  { [headers |-> ( <<"x-", "forwarded-for">> :> <<"5", ",", " ", "9">>
                   @@ <<"us", "er-agent">> :> <<"u", "a">> ),
     ip |-> Str(<<"7">>), remoteAddress |-> Str(<<"7">>)] }

\* ------------------------------------------------------------ JSON values
Num(v) == [t |-> "number", v |-> v]
\* an object with one member a and pad further chunks of text
Obj(a, pad) == [t |-> "object", a |-> a, pad |-> pad]
Arr == [t |-> "array", pad |-> 0]

\* the bodies a POST request is handed (req.body)
Bodies ==
  { Null, Str(<<"s">>), Arr, Obj(Num("1"), 1), Obj(Num("Infinity"), 0) }

\* the value JSON.stringify writes for v: a non-finite number is written null
Written(v) ==
  CASE v.t = "number" -> IF v.v = "Infinity" THEN Null ELSE v
    [] v.t = "object" ->
         [v EXCEPT !.a = IF @.t = "number" /\ @.v = "Infinity" THEN Null ELSE @]
    [] OTHER -> v

\* the number of chunks of the text of the record d
NumChunks(d) == 1 + d.diagnostics.pad

\* JSON.stringify(dataToStore, null, 2): chunk i is part i of the text of d
stringify(d) ==
  LET w == [d EXCEPT !.diagnostics = Written(@)]
  IN [i \in 1..NumChunks(d) |-> [of |-> w, part |-> i]]

\* the bytes of a hole (a write beyond the end of the file)
NUL == [of |-> Null, part |-> 0]

\* JSON.parse(text) succeeds on the complete text of one record only
Parses(text) ==
  /\ text # <<>>
  /\ text[1].part = 1
  /\ Len(text) = NumChunks(text[1].of)
  /\ \A i \in 1..Len(text) : text[i] = [of |-> text[1].of, part |-> i]

parse(text) == text[1].of

\* ------------------------------------------------------------------- state
\* files      the profiles directory
\* req        the requests in arrival order: the handler's position (pc), its
\*            locals and its response; absent, ceiling, io, after, failed, ver
\*            are history fields (what the last existence check of a
\*            submission found in the directory, whether its last candidate
\*            was the tenth, the number of storage accesses of a retrieval,
\*            and, when the retrieval arrived, the submissions already
\*            answered 200 for the requested id, those whose write of it had
\*            failed, and the number of operations done on its file)
\* started    the number of requests that have arrived (also the clock)
\* writers    for each id, the requests that opened its file for writing
\* persisted  for each id, the content of its file when a writeFile on it
\*            first completed (<<>> before)
\* probe      the input and the result of one call of a function of the
\*            server that is examined on its own (GenSpec, HdrSpec); unused
\*            by the request handlers
\* page       the page of the browser client (app.js): its submit button,
\*            its status message and its calls of submitDiagnostics
\*            (ClientSpec); unused by the server

NoRecord == [referenceId |-> <<>>]

NoResponse == [status |-> 0]

NoProbe == [done |-> FALSE]
\* no page of the browser client is open
NoPage == [open |-> FALSE]

Idle ==
  [kind |-> "none", pc |-> "idle", body |-> Undefined, ctx |-> <<>>,
   gid |-> <<>>, attempts |-> 0, id |-> <<>>, referenceId |-> Undefined,
   dataToStore |-> NoRecord, pos |-> 0, data |-> <<>>, resp |-> NoResponse,
   absent |-> FALSE, ceiling |-> FALSE, io |-> 0, after |-> {},
   failed |-> {}, ver |-> 0]

Init ==
  /\ files = <<>>
  /\ req = [r \in Reqs |-> Idle]
  /\ started = 0
  /\ writers = [i \in GenIds |-> {}]
  /\ persisted = [i \in GenIds |-> <<>>]
  /\ probe = NoProbe
  /\ page = NoPage

\* no handler is inside a chain of microtasks
JsIdle == \A r \in Reqs : req[r].pc # "gen"

\* ------------------------------------------------------ POST /api/diagnostics
\* if (!diagnosticsData || typeof diagnosticsData !== 'object')
Invalid(diagnosticsData) ==
  ~Truthy(diagnosticsData) \/ TypeOf(diagnosticsData) # "object"

\* a loop condition with the comparison turned around
LoopAgainFlipped(unique, attempts) == ~unique /\ attempts > maxAttempts

\* while (!(await isIdUnique(id)) && attempts < maxAttempts)
LoopAgain(unique, attempts) == ~unique /\ attempts < maxAttempts

\* a ceiling test that lets the last attempt through
ExhaustedAfterCeiling(attempts) == attempts > maxAttempts

\* if (attempts >= maxAttempts) throw
Exhausted(attempts) == attempts >= maxAttempts

\* the catch block of the POST handler
PostError(message) ==
  [status |-> 500, error |-> "Failed to save diagnostics", message |-> message]

\* the handler from the return of generateUniqueReferenceId (whose counter
\* attempts ends with it) to the call of fs.writeFile
Build(q, id, now) ==
  [q EXCEPT !.attempts = 0,
            !.referenceId = Str(id),
            !.dataToStore =
               [referenceId |-> id,
                submittedAt |-> now,
                clientIp |-> realClientIp(q.ctx),
                userAgent |-> get(q.ctx, <<"us", "er-agent">>),
                networkHeaders |-> extractNetworkHeaders(q.ctx),
                diagnostics |-> q.body],
            !.pos = 0,
            !.pc = "open"]

\* one iteration of the loop of generateUniqueReferenceId with the outcomes
\* rnd, and what follows it when the loop ends
GenIter(q, rnd, now) ==
  LET id == generateReferenceId(rnd)
      attempts == q.attempts + 1
      unique == isIdUnique(id)
      g == [q EXCEPT !.id = id, !.attempts = attempts,
                     !.absent = id \notin DOMAIN files,
                     !.ceiling = attempts = maxAttempts]
  IN IF LoopAgain(unique, attempts) THEN [g EXCEPT !.pc = "gen"]
     ELSE IF Exhausted(attempts)
       THEN [g EXCEPT !.pc = "done",
                      !.resp = PostError("Failed to generate unique reference ID")]
       ELSE Build(g, id, now)

\* a submission arrives: validation, and the first iteration of the loop
PostStart(r, body, ctx, rnd) ==
  /\ JsIdle
  /\ started < MaxRequests
  /\ r = started + 1
  /\ started' = r
  /\ LET q == [req[r] EXCEPT !.kind = "POST", !.body = body, !.ctx = ctx]
     IN req' = [req EXCEPT ![r] =
          IF Invalid(body)
            THEN [q EXCEPT !.pc = "done",
                           !.resp = [status |-> 400,
                                     error |-> "Invalid diagnostics data"]]
            ELSE GenIter(q, rnd, r)]
  /\ UNCHANGED <<files, writers, persisted, probe, page>>

\* the loop resumes after await isIdUnique(id)
GenStep(r, rnd) ==
  /\ req[r].pc = "gen"
  /\ req' = [req EXCEPT ![r] = GenIter(req[r], rnd, started)]
  /\ UNCHANGED <<files, started, writers, persisted, probe, page>>

\* content with chunk c written at position pos (1-based), a hole before it
\* filled with NUL
Put(content, pos, c) ==
  [i \in 1..(IF pos > Len(content) THEN pos ELSE Len(content)) |->
     IF i = pos THEN c ELSE IF i <= Len(content) THEN content[i] ELSE NUL]

\* fs.writeFile: open(filepath, 'w') creates the file or truncates it
WriteOpen(r) ==
  /\ req[r].pc = "open"
  /\ LET id == req[r].dataToStore.referenceId
     IN /\ files' = [i \in DOMAIN files \cup {id} |->
                       IF i = id THEN <<>> ELSE files[i]]
        /\ writers' = [writers EXCEPT ![id] = @ \cup {r}]
  /\ req' = [req EXCEPT ![r].pc = "write"]
  /\ UNCHANGED <<started, persisted, probe, page>>

\* fs.writeFile: the next chunk of the text is written at the position of
\* this open file; after the last one the file is closed
WriteChunk(r) ==
  /\ req[r].pc = "write"
  /\ LET id == req[r].dataToStore.referenceId
         text == stringify(req[r].dataToStore)
         pos == req[r].pos + 1
         content == Put(files[id], pos, text[pos])
         last == pos = Len(text)
     IN /\ files' = [files EXCEPT ![id] = content]
        /\ req' = [req EXCEPT ![r].pos = pos,
                              ![r].pc = IF last THEN "written" ELSE "write"]
        /\ persisted' = IF last /\ persisted[id] = <<>>
                          THEN [persisted EXCEPT ![id] = content]
                          ELSE persisted
  /\ UNCHANGED <<started, writers, probe, page>>

\* fs.writeFile rejects (the open or a write fails): the catch block answers
WriteFail(r) ==
  /\ JsIdle
  /\ req[r].pc \in {"open", "write"}
  /\ req' = [req EXCEPT ![r].pc = "done",
                        ![r].resp = PostError("EIO")]
  /\ UNCHANGED <<files, started, writers, persisted, probe, page>>

\* an answer that does not wait for fs.writeFile
PostRespondEarly(r) ==
  /\ JsIdle
  /\ req[r].pc \in {"open", "write", "written"}
  /\ req' = [req EXCEPT ![r].pc = "done",
                        ![r].resp = [status |-> 200, success |-> TRUE,
                                     referenceId |-> req[r].referenceId.s]]
  /\ UNCHANGED <<files, started, writers, persisted, probe, page>>

\* the handler resumes after await fs.writeFile and answers
PostRespond(r) ==
  /\ JsIdle
  /\ req[r].pc = "written"
  /\ req' = [req EXCEPT ![r].pc = "done",
                        ![r].resp = [status |-> 200, success |-> TRUE,
                                     referenceId |-> req[r].referenceId.s]]
  /\ UNCHANGED <<files, started, writers, persisted, probe, page>>

\* --------------------------------------------------- GET /api/diagnostics/:id
\* the ids a retrieval asks for: the generated ones, a well-formed one with
\* symbols outside the generator's alphabet, and malformed ones
GetIds ==
  GenIds \cup
  { Rep("0", 5) \o <<"-">> \o Rep("O", 5) \o <<"-">> \o Rep("1", 5),
    Rep("A", 5) \o <<"-">> \o Rep("A", 5) \o <<"-">> \o Rep("A", 4),
    Rep("a", 5) \o <<"-">> \o Rep("a", 5) \o <<"-">> \o Rep("a", 5),
    Rep("A", 17) }

\* the submissions that have answered 200 with referenceId id
Answered(id) ==
  {p \in Reqs : /\ req[p].kind = "POST"
                /\ req[p].resp.status = 200
                /\ req[p].resp.referenceId = id}

\* the submissions whose fs.writeFile under id has been rejected
Failed(id) ==
  {p \in Reqs : /\ req[p].kind = "POST"
                /\ req[p].pc = "done"
                /\ req[p].resp.status = 500
                /\ req[p].referenceId = Str(id)}

\* the number of operations (opens, writes) done so far on the file of id
RECURSIVE Operations(_)
Operations(ws) ==
  IF ws = {} THEN 0
  ELSE LET w == CHOOSE x \in ws : TRUE
       IN 1 + req[w].pos + Operations(ws \ {w})

NumWrites(id) == IF id \in GenIds THEN Operations(writers[id]) ELSE 0

\* a handler that looks the file up before it checks the format
GetHandleLookupFirst(q, id) ==
  IF ~existsSync(id)
    THEN [q EXCEPT !.pc = "done", !.io = @ + 1,
                   !.resp = [status |-> 404, error |-> "Diagnostics not found"]]
  ELSE IF ~FormatOk(id)
    THEN [q EXCEPT !.pc = "done", !.io = @ + 1,
                   !.resp = [status |-> 400,
                             error |-> "Invalid reference ID format"]]
  ELSE [q EXCEPT !.pc = "read", !.io = @ + 1]

\* a handler that answers a missing file with an empty record
GetHandleDefaultRecord(q, id) ==
  IF ~FormatOk(id)
    THEN [q EXCEPT !.pc = "done",
                   !.resp = [status |-> 400,
                             error |-> "Invalid reference ID format"]]
  ELSE IF ~existsSync(id)
    THEN [q EXCEPT !.pc = "done", !.io = @ + 1,
                   !.resp = [status |-> 200, body |-> NoRecord]]
  ELSE [q EXCEPT !.pc = "read", !.io = @ + 1]

\* the GET handler up to its first await: the format check, then existsSync,
\* then the call of fs.readFile
GetHandle(q, id) ==
  IF ~FormatOk(id)
    THEN [q EXCEPT !.pc = "done",
                   !.resp = [status |-> 400,
                             error |-> "Invalid reference ID format"]]
  ELSE IF ~existsSync(id)
    THEN [q EXCEPT !.pc = "done", !.io = @ + 1,
                   !.resp = [status |-> 404, error |-> "Diagnostics not found"]]
  ELSE [q EXCEPT !.pc = "read", !.io = @ + 1]

\* a retrieval arrives
GetStart(r, id) ==
  /\ JsIdle
  /\ started < MaxRequests
  /\ r = started + 1
  /\ started' = r
  /\ req' = [req EXCEPT ![r] =
       GetHandle([@ EXCEPT !.kind = "GET", !.gid = id, !.after = Answered(id),
                           !.failed = Failed(id), !.ver = NumWrites(id)],
                 id)]
  /\ UNCHANGED <<files, writers, persisted, probe, page>>

\* a read that empties the file it has read to its end
ReadChunkConsuming(r) ==
  /\ req[r].pc = "read"
  /\ LET content == files[req[r].gid]
         n == Len(req[r].data)
     IN /\ req' = [req EXCEPT ![r] =
             IF n < Len(content)
               THEN [@ EXCEPT !.data = Append(@, content[n + 1]), !.io = @ + 1]
               ELSE [@ EXCEPT !.pc = "parse", !.io = @ + 1]]
        /\ files' = IF n < Len(content) THEN files
                    ELSE [files EXCEPT ![req[r].gid] = <<>>]
  /\ UNCHANGED <<started, writers, persisted, probe, page>>

\* fs.readFile reads the next chunk of the file, or finds its end
ReadChunk(r) ==
  /\ req[r].pc = "read"
  /\ LET content == files[req[r].gid]
         n == Len(req[r].data)
     IN req' = [req EXCEPT ![r] =
          IF n < Len(content)
            THEN [@ EXCEPT !.data = Append(@, content[n + 1]), !.io = @ + 1]
            ELSE [@ EXCEPT !.pc = "parse", !.io = @ + 1]]
  /\ UNCHANGED <<files, started, writers, persisted, probe, page>>

\* the handler resumes after await fs.readFile: JSON.parse, then the answer
GetRespond(r) ==
  /\ JsIdle
  /\ req[r].pc = "parse"
  /\ req' = [req EXCEPT ![r].pc = "done",
                        ![r].data = <<>>,
                        ![r].resp =
                           IF Parses(req[r].data)
                             THEN [status |-> 200, body |-> parse(req[r].data)]
                             ELSE [status |-> 500,
                                   error |-> "Failed to retrieve diagnostics"]]
  /\ UNCHANGED <<files, started, writers, persisted, probe, page>>

\* ----------------------------------------------------------- specification
Next ==
  \/ \E r \in Reqs, body \in Bodies, ctx \in Contexts, rnd \in RandomDraws :
       PostStart(r, body, ctx, rnd)
  \/ \E r \in Reqs, rnd \in RandomDraws : GenStep(r, rnd)
  \/ \E r \in Reqs : WriteOpen(r)
  \/ \E r \in Reqs : WriteChunk(r)
  \/ \E r \in Reqs : WriteFail(r)
  \/ \E r \in Reqs : PostRespond(r)
  \/ \E r \in Reqs, id \in GetIds : GetStart(r, id)
  \/ \E r \in Reqs : ReadChunk(r)
  \/ \E r \in Reqs : GetRespond(r)

Spec == Init /\ [][Next]_vars

\* ------------------------------------------- generateReferenceId on its own
\* for every index of chars the smallest outcome of Math.random() that
\* selects it, and the largest outcome
ProbeValues ==
  {(k * RandScale + Len(chars) - 1) \div Len(chars) : k \in 0..(Len(chars) - 1)}
    \cup {RandScale - 1}

\* the outcomes of the 15 calls of Math.random() of one generateReferenceId:
\* the call numbered call takes every value of ProbeValues, the others are
\* all the smallest or all the largest outcome
ProbeDraws ==
  {[rnd |-> [Rep(b, numGroups * groupLength) EXCEPT ![i] = u], call |-> i] :
     b \in {0, RandScale - 1}, i \in 1..(numGroups * groupLength),
     u \in ProbeValues}

InitGen ==
  /\ files = <<>>
  /\ req = [r \in Reqs |-> Idle]
  /\ started = 0
  /\ writers = [i \in GenIds |-> {}]
  /\ persisted = [i \in GenIds |-> <<>>]
  /\ probe \in {[rnd |-> d.rnd, call |-> d.call, done |-> FALSE] :
                  d \in ProbeDraws}
  /\ page = NoPage

\* one call of generateReferenceId()
Generate ==
  /\ ~probe.done
  /\ probe' = [rnd |-> probe.rnd, call |-> probe.call, done |-> TRUE,
               id |-> generateReferenceId(probe.rnd)]
  /\ UNCHANGED <<files, req, started, writers, persisted, page>>

NextGen == Generate

GenSpec == InitGen /\ [][NextGen]_vars

\* -------------------------------------------------------------- properties
Posts == {r \in Reqs : req[r].kind = "POST"}
Gets == {r \in Reqs : req[r].kind = "GET"}
Answered200 == {p \in Posts : req[p].resp.status = 200}
GetsDone == {g \in Gets : req[g].pc = "done"}

\* C1: any two submissions answered with success have different reference
\* ids, and no file is written by more than one submission (no submission
\* overwrites the record of another).
C1_DistinctIdsNoOverwrite ==
  /\ \A a \in Answered200 : \A b \in Answered200 :
       a # b => req[a].resp.referenceId # req[b].resp.referenceId
  /\ \A id \in GenIds : Cardinality(writers[id]) <= 1

\* C2: once a write has completed under an id, the file of that id exists
\* and holds the content first persisted, in every later state.
C2_PersistedNeverChanges ==
  \A id \in GenIds :
    persisted[id] # <<>> => (existsSync(id) /\ files[id] = persisted[id])

\* C3: a retrieval of an id that arrives after a submission with a JSON-object
\* payload was answered 200 with that id answers 200 with a record whose
\* diagnostics is that payload and whose referenceId is that id.
C3_RoundTrip ==
  \A g \in GetsDone : \A p \in req[g].after :
    req[p].body.t = "object" =>
      /\ req[g].resp.status = 200
      /\ req[g].resp.body.diagnostics = req[p].body
      /\ req[g].resp.body.referenceId = req[g].gid

\* C4: a submission answers 200 only after its write has completed, so the
\* file of its referenceId exists from then on, and no retrieval that arrives
\* after the answer finds the id missing (404).
C4_WriteBeforeRespond ==
  /\ \A p \in Answered200 :
       /\ existsSync(req[p].resp.referenceId)
       /\ persisted[req[p].resp.referenceId] # <<>>
  /\ \A g \in GetsDone : req[g].after # {} => req[g].resp.status # 404

C4_Witness ==
  \E g \in GetsDone : req[g].after # {} /\ req[g].resp.status = 200

\* C5: a submission whose payload is null, an array or a string is answered
\* 400 "Invalid diagnostics data", is given no id and writes no file.
C5_NonObjectRejected ==
  \A p \in Posts :
    req[p].body.t \in {"null", "array", "string"} =>
      /\ req[p].resp.status = 400
      /\ req[p].resp.error = "Invalid diagnostics data"
      /\ req[p].referenceId = Undefined
      /\ \A id \in GenIds : p \notin writers[id]

\* C6: when a candidate of generateUniqueReferenceId (the k-th, k <= 10) does
\* not exist in the store, the call returns that candidate.
C6_FoundWithinCeiling ==
  \A p \in Posts :
    req[p].absent => req[p].referenceId = Str(req[p].id)

\* C7: when the tenth candidate exists like the nine before it, the call
\* throws after exactly ten attempts, the submission is answered 500 and
\* writes no file; the exhausted-retries error is raised in no other case.
Exhausted500 == PostError("Failed to generate unique reference ID")

C7_ExhaustedFails ==
  \A p \in Posts :
    /\ (req[p].ceiling /\ ~req[p].absent) =>
         /\ req[p].pc = "done"
         /\ req[p].attempts = maxAttempts
         /\ req[p].resp = Exhausted500
         /\ req[p].referenceId = Undefined
         /\ \A id \in GenIds : p \notin writers[id]
    /\ req[p].attempts <= maxAttempts
    /\ req[p].resp = Exhausted500 => req[p].ceiling

C7_Witness ==
  \E p \in Posts :
    /\ req[p].ceiling
    /\ ~req[p].absent
    /\ req[p].attempts = maxAttempts
    /\ req[p].resp = Exhausted500

\* C8: an id returned by generateUniqueReferenceId did not exist in the store
\* at the existence check of the iteration that produced it.
C8_NeverReturnsColliding ==
  \A p \in Posts : req[p].referenceId # Undefined => req[p].absent

C8_Witness ==
  \E p \in Posts :
    /\ req[p].referenceId # Undefined
    /\ req[p].absent
    /\ \E id \in DOMAIN files : Str(id) # req[p].referenceId /\ p \notin writers[id]

\* C9: a retrieval of an id that fails the format pattern is answered 400 and
\* makes no storage access (no existence check, no read).
C9_MalformedNoStorage ==
  \A g \in Gets :
    ~FormatOk(req[g].gid) =>
      /\ req[g].pc = "done"
      /\ req[g].resp = [status |-> 400, error |-> "Invalid reference ID format"]
      /\ req[g].io = 0

C9_Witness ==
  /\ files # <<>>
  /\ \E g \in Gets :
       /\ Len(req[g].gid) = 17
       /\ ~FormatOk(req[g].gid)
       /\ req[g].resp.status = 400
       /\ req[g].io = 0

Retrieves ==
  \/ \E r \in Reqs, id \in GetIds : GetStart(r, id)
  \/ \E r \in Reqs : ReadChunk(r)
  \/ \E r \in Reqs : GetRespond(r)

Undisturbed(g) == req[g].ver = NumWrites(req[g].gid)

SameAnswers ==
  \A g \in GetsDone : \A h \in GetsDone :
    (req[g].gid = req[h].gid /\ Undisturbed(g) /\ Undisturbed(h)) =>
      req[g].resp = req[h].resp

C11_RetrieveIdempotent ==
  [][(Retrieves => files' = files) /\ SameAnswers']_vars

C11_Witness ==
  \E g \in GetsDone : \E h \in GetsDone :
    /\ g # h
    /\ req[g].gid = req[h].gid
    /\ Undisturbed(g) /\ Undisturbed(h)
    /\ req[g].resp.status = 200
    /\ req[h].resp = req[g].resp

\* C19: when every write under an id had failed before a retrieval of that
\* id arrived (and no other submission writes under it), the retrieval is
\* answered 404.
C19_FailedWriteInvisible ==
  \A g \in GetsDone :
    (req[g].failed # {} /\ req[g].gid \in GenIds
       /\ writers[req[g].gid] \subseteq req[g].failed) =>
      req[g].resp.status = 404

\* C20: when two submissions have both completed their writes under one id,
\* the file of that id holds exactly the complete text of the record of one
\* of the two.
Completed == {p \in Posts : req[p].pc = "written" \/ req[p].resp.status = 200}

C20_OverwriteNotMixture ==
  \A id \in GenIds :
    (Cardinality(writers[id]) = 2 /\ writers[id] \subseteq Completed) =>
      \E w \in writers[id] : files[id] = stringify(req[w].dataToStore)

\* ---------------------------------- the derivations from a request on their own
\* the header name, absent or with one of the values vals
Opt(name, vals) == {<<>>} \cup {name :> v : v \in vals}

\* the requests examined: every combination of the address headers absent,
\* empty or set, an allow-listed header without the x- prefix, an x- header
\* off the allow-list and two headers that are neither
ProbeContexts ==
  { [headers |-> cf @@ xff @@ xri @@ tci @@ via @@ xc @@ ua,
     ip |-> ip, remoteAddress |-> Str(<<"8">>)] :
      cf \in Opt(<<"cf", "-connecting-ip">>, {<<>>, <<"1">>}),
      xff \in Opt(<<"x-", "forwarded-for">>,
                  {<<>>, <<"5">>, <<"5", ",", " ", "9">>,
                   <<" ", "5", "\t", ",", "9">>, <<" ", ",", " ", "9">>}),
      xri \in Opt(<<"x-", "real-ip">>, {<<>>, <<"2">>}),
      tci \in Opt(<<"tr", "ue-client-ip">>, {<<"3">>}),
      via \in Opt(<<"vi", "a">>, {<<>>, <<"v">>}),
      xc \in Opt(<<"x-", "custom">>, {<<>>, <<"c">>}),
      ua \in { <<>>,
               <<"us", "er-agent">> :> <<"u", "a">>
                 @@ <<"co", "ntent-type">> :> <<"j">> },
      ip \in {Undefined, Str(<<"7">>)} }

InitHdr ==
  /\ files = <<>>
  /\ req = [r \in Reqs |-> Idle]
  /\ started = 0
  /\ writers = [i \in GenIds |-> {}]
  /\ persisted = [i \in GenIds |-> <<>>]
  /\ probe \in {[ctx |-> c, done |-> FALSE] : c \in ProbeContexts}
  /\ page = NoPage

\* the clientIp and networkHeaders derived from one request
Derive ==
  /\ ~probe.done
  /\ probe' = [ctx |-> probe.ctx, done |-> TRUE,
               clientIp |-> realClientIp(probe.ctx),
               networkHeaders |-> extractNetworkHeaders(probe.ctx)]
  /\ UNCHANGED <<files, req, started, writers, persisted, page>>

NextHdr == Derive

HdrSpec == InitHdr /\ [][NextHdr]_vars

\* ------------------------------------------------ the browser client (app.js)
\* number of clicks on the submit button in a behaviour
MaxClicks == 3

\* the texts the page shows, abbreviated to one symbol each
SendText == <<"S">>
SendingText == <<".">>
SubmittedText == <<"!">>
FetchFailedText == <<"N">>
SyntaxErrorText == <<"J">>
SubmitFailedText == <<"F">>

\* the JSON bodies a response can carry: the answer of a stored submission,
\* an error answer, and an object with neither member
Results ==
  { [error |-> Undefined, referenceId |-> Str(Rep("A", 5))],
    [error |-> Str(<<"E">>), referenceId |-> Undefined],
    [error |-> Undefined, referenceId |-> Undefined] }

\* the page once loaded, before the load handler's timeout has run; clicks is
\* a history field (the clicks the button has dispatched)
NewPage ==
  [open |-> TRUE, listening |-> FALSE,
   submitBtn |-> [disabled |-> FALSE, display |-> "block",
                  textContent |-> SendText],
   statusMessage |-> [display |-> "none", className |-> "status-message",
                      textContent |-> <<>>],
   referenceIdValue |-> Undefined,
   calls |-> <<>>, sent |-> 0, clicks |-> 0]

InitClient ==
  /\ files = <<>>
  /\ req = [r \in Reqs |-> Idle]
  /\ started = 0
  /\ writers = [i \in GenIds |-> {}]
  /\ persisted = [i \in GenIds |-> <<>>]
  /\ probe = NoProbe
  /\ page = NewPage

\* the timeout of the load handler adds submitDiagnostics as click listener
Load ==
  /\ ~page.listening
  /\ page' = [page EXCEPT !.listening = TRUE]
  /\ UNCHANGED <<files, req, started, writers, persisted, probe>>

\* a submitDiagnostics that leaves the button enabled while it sends
submitDiagnosticsNoDisable(pg) ==
  [pg EXCEPT !.submitBtn.textContent = SendingText,
             !.statusMessage.display = "none",
             !.calls = Append(@, [pc |-> "fetch", ok |-> FALSE,
                                  outcome |-> "pending", error |-> <<>>]),
             !.sent = @ + 1]

\* submitDiagnostics up to its await fetch(...): the request is sent
submitDiagnostics(pg) ==
  [pg EXCEPT !.submitBtn.disabled = TRUE,
             !.submitBtn.textContent = SendingText,
             !.statusMessage.display = "none",
             !.calls = Append(@, [pc |-> "fetch", ok |-> FALSE,
                                  outcome |-> "pending", error |-> <<>>]),
             !.sent = @ + 1]

\* the catch block of call c of submitDiagnostics, with error.message
Catch(pg, c, message) ==
  [pg EXCEPT !.statusMessage = [display |-> "block",
                                className |-> "status-message error",
                                textContent |-> message],
             !.submitBtn.disabled = FALSE,
             !.submitBtn.textContent = SendText,
             !.calls[c] = [@ EXCEPT !.pc = "done", !.outcome = "failed",
                                    !.error = message]]

\* the branch if (response.ok) of call c
Succeed(pg, c, result) ==
  [pg EXCEPT !.statusMessage = [display |-> "block",
                                className |-> "status-message success",
                                textContent |-> SubmittedText],
             !.referenceIdValue = result.referenceId,
             !.submitBtn.display = "none",
             !.calls[c] = [@ EXCEPT !.pc = "done", !.outcome = "success"]]

\* the user clicks the submit button; a disabled or hidden button dispatches
\* no click event
Click ==
  /\ page.listening
  /\ ~page.submitBtn.disabled
  /\ page.submitBtn.display # "none"
  /\ page.clicks < MaxClicks
  /\ page' = submitDiagnostics([page EXCEPT !.clicks = @ + 1])
  /\ UNCHANGED <<files, req, started, writers, persisted, probe>>

\* fetch rejects (network error)
FetchReject(c) ==
  /\ page.calls[c].pc = "fetch"
  /\ page' = Catch(page, c, FetchFailedText)
  /\ UNCHANGED <<files, req, started, writers, persisted, probe>>

\* fetch resolves with a response whose status is 2xx (ok) or not
FetchResolve(c, ok) ==
  /\ page.calls[c].pc = "fetch"
  /\ page' = [page EXCEPT !.calls[c].pc = "json", !.calls[c].ok = ok]
  /\ UNCHANGED <<files, req, started, writers, persisted, probe>>

\* response.json() rejects (the body is not JSON)
JsonReject(c) ==
  /\ page.calls[c].pc = "json"
  /\ page' = Catch(page, c, SyntaxErrorText)
  /\ UNCHANGED <<files, req, started, writers, persisted, probe>>

\* response.json() resolves with result
JsonResolve(c, result) ==
  /\ page.calls[c].pc = "json"
  /\ page' = IF page.calls[c].ok
               THEN Succeed(page, c, result)
               ELSE Catch(page, c,
                          Or(result.error, Str(SubmitFailedText)).s)
  /\ UNCHANGED <<files, req, started, writers, persisted, probe>>

NextClient ==
  \/ Load
  \/ Click
  \/ \E c \in 1..Len(page.calls) : FetchReject(c)
  \/ \E c \in 1..Len(page.calls), ok \in BOOLEAN : FetchResolve(c, ok)
  \/ \E c \in 1..Len(page.calls) : JsonReject(c)
  \/ \E c \in 1..Len(page.calls), result \in Results : JsonResolve(c, result)

ClientSpec == InitClient /\ [][NextClient]_vars

\* -------------------------------------------------------------- properties
\* the symbols ruled out of identifiers as ambiguous
Ambiguous == {"0", "O", "I", "1", "L"}

\* the place in the id of the symbol the k-th call of Math.random() selects
PlaceOf(k) == k + ((k - 1) \div groupLength)

\* the symbols the k-th symbol of the id takes over all outcomes of its call
\* of Math.random(), the other calls being as in the examined call
ValuesAt(k) ==
  {generateReferenceId([probe.rnd EXCEPT ![k] = u])[PlaceOf(k)] :
     u \in 0..(RandScale - 1)}

\* C12: every generated id is three groups of five symbols joined by single
\* hyphens, and no symbol of a group is one of 0, O, I, 1, L.
C12_GeneratedFormat ==
  probe.done =>
    /\ Len(probe.id) = 17
    /\ \A i \in 1..17 :
         IF i \in {6, 12} THEN probe.id[i] = "-"
         ELSE probe.id[i] \in (Upper \cup Digit) \ Ambiguous

C12_Witness ==
  /\ probe.done
  /\ probe.id[1] = "9"
  /\ probe.id[17] = "A"

\* C13 as stated: each of the 15 symbols of a generated id takes exactly 32
\* different values (checked, in every examined call of generateReferenceId,
\* for the symbol whose outcome of Math.random() the examination varies).
C13_ThirtyTwoSymbols ==
  probe.done => Cardinality(ValuesAt(probe.call)) = 32

\* C13, amended: each of the 15 symbols of a generated id takes exactly the
\* 31 values that are an upper-case letter or a digit other than 0, O, I, 1
\* and L.
C13_ThirtyOneSymbols ==
  probe.done =>
    LET values == ValuesAt(probe.call)
    IN /\ values = (Upper \cup Digit) \ Ambiguous
       /\ Cardinality(values) = 31

C13_Witness ==
  /\ probe.done
  /\ probe.call = numGroups * groupLength
  /\ probe.id[PlaceOf(probe.call)] = "9"
  /\ probe.id[1] = "A"

\* three hyphen-joined groups of five symbols of the set cs
Grouped(id, cs) ==
  /\ Len(id) = 17
  /\ \A i \in 1..17 : IF i \in {6, 12} THEN id[i] = "-" ELSE id[i] \in cs

\* C14 as stated: a retrieval of an id that is not three hyphen-joined groups
\* of five symbols of the generator's alphabet is answered 400 and is not
\* looked up.
C14_NonAlphabetRejected ==
  \A g \in GetsDone :
    ~Grouped(req[g].gid, (Upper \cup Digit) \ Ambiguous) =>
      /\ req[g].resp.status = 400
      /\ req[g].io = 0

\* C14, amended: a retrieval is answered 400 exactly when its id is not three
\* hyphen-joined groups of five upper-case letters or digits; an id of that
\* shape with symbols outside the generator's alphabet (0, O, 1, I, L) is
\* looked up and, as no record has it, answered 404.
C14_OffPatternRejected ==
  \A g \in GetsDone :
    /\ req[g].resp.status = 400 <=> ~Grouped(req[g].gid, Upper \cup Digit)
    /\ ( /\ Grouped(req[g].gid, Upper \cup Digit)
         /\ ~Grouped(req[g].gid, (Upper \cup Digit) \ Ambiguous) ) =>
         /\ req[g].resp = [status |-> 404, error |-> "Diagnostics not found"]
         /\ req[g].io = 1

C14_Witness ==
  \E g \in GetsDone :
    /\ req[g].gid[1] \in Ambiguous
    /\ Grouped(req[g].gid, Upper \cup Digit)
    /\ req[g].resp.status = 404

\* the header name is carried by the examined request
Present(name) == name \in DOMAIN probe.ctx.headers

\* ... with a value that is not the empty string
NonEmpty(name) == Present(name) /\ probe.ctx.headers[name] # <<>>

\* e is the leftmost comma-separated entry of v without the white space
\* around it
Leftmost(v, e) ==
  \E k \in 1..(Len(v) + 1) : \E i \in 1..k : \E j \in (i - 1)..(k - 1) :
    /\ k = Len(v) + 1 \/ v[k] = ","
    /\ \A n \in 1..(k - 1) : v[n] # ","
    /\ \A n \in (1..(i - 1)) \cup ((j + 1)..(k - 1)) : v[n] \in {" ", "\t"}
    /\ e = SubSeq(v, i, j)
    /\ e # <<>> => (e[1] \notin {" ", "\t"} /\ e[Len(e)] \notin {" ", "\t"})

Peer == IF probe.ctx.ip # Undefined THEN probe.ctx.ip
        ELSE probe.ctx.remoteAddress

\* C15 as stated: clientIp is the first header that is present of
\* cf-connecting-ip, x-forwarded-for (leftmost entry), x-real-ip,
\* true-client-ip, else the peer address.
C15_FirstPresentWins ==
  probe.done =>
    IF Present(<<"cf", "-connecting-ip">>)
      THEN probe.clientIp = Str(probe.ctx.headers[<<"cf", "-connecting-ip">>])
    ELSE IF Present(<<"x-", "forwarded-for">>)
      THEN Leftmost(probe.ctx.headers[<<"x-", "forwarded-for">>],
                    probe.clientIp.s)
    ELSE IF Present(<<"x-", "real-ip">>)
      THEN probe.clientIp = Str(probe.ctx.headers[<<"x-", "real-ip">>])
    ELSE IF Present(<<"tr", "ue-client-ip">>)
      THEN probe.clientIp = Str(probe.ctx.headers[<<"tr", "ue-client-ip">>])
    ELSE probe.clientIp = Peer

\* C15, amended: clientIp is the first non-empty value of cf-connecting-ip,
\* the leftmost trimmed entry of x-forwarded-for, x-real-ip, true-client-ip,
\* else the peer address; whenever cf-connecting-ip is present and not empty
\* clientIp equals it.
C15_FirstNonEmptyWins ==
  probe.done =>
    IF NonEmpty(<<"cf", "-connecting-ip">>)
      THEN probe.clientIp = Str(probe.ctx.headers[<<"cf", "-connecting-ip">>])
    ELSE IF /\ Present(<<"x-", "forwarded-for">>)
            /\ ~Leftmost(probe.ctx.headers[<<"x-", "forwarded-for">>], <<>>)
      THEN Leftmost(probe.ctx.headers[<<"x-", "forwarded-for">>],
                    probe.clientIp.s)
    ELSE IF NonEmpty(<<"x-", "real-ip">>)
      THEN probe.clientIp = Str(probe.ctx.headers[<<"x-", "real-ip">>])
    ELSE IF NonEmpty(<<"tr", "ue-client-ip">>)
      THEN probe.clientIp = Str(probe.ctx.headers[<<"tr", "ue-client-ip">>])
    ELSE probe.clientIp = Peer

C15_Witness ==
  /\ probe.done
  /\ NonEmpty(<<"cf", "-connecting-ip">>)
  /\ NonEmpty(<<"x-", "forwarded-for">>)
  /\ NonEmpty(<<"x-", "real-ip">>)
  /\ probe.clientIp = Str(<<"1">>)

\* C16 as stated: without cf-connecting-ip and with x-forwarded-for, clientIp
\* is the leftmost entry of x-forwarded-for without the white space around
\* it, whatever the value of x-forwarded-for.
C16_LeftmostForwarded ==
  (probe.done /\ ~Present(<<"cf", "-connecting-ip">>)
     /\ Present(<<"x-", "forwarded-for">>)) =>
    /\ probe.clientIp.t = "string"
    /\ Leftmost(probe.ctx.headers[<<"x-", "forwarded-for">>], probe.clientIp.s)

\* C16, amended: without cf-connecting-ip and with an x-forwarded-for whose
\* leftmost entry is not empty once trimmed, clientIp is that trimmed entry,
\* regardless of x-real-ip, true-client-ip and the peer address.
C16_LeftmostNonEmptyForwarded ==
  (probe.done /\ ~Present(<<"cf", "-connecting-ip">>)
     /\ Present(<<"x-", "forwarded-for">>)
     /\ ~Leftmost(probe.ctx.headers[<<"x-", "forwarded-for">>], <<>>)) =>
    /\ probe.clientIp.t = "string"
    /\ Leftmost(probe.ctx.headers[<<"x-", "forwarded-for">>], probe.clientIp.s)

C16_Witness ==
  /\ probe.done
  /\ ~Present(<<"cf", "-connecting-ip">>)
  /\ Present(<<"x-", "forwarded-for">>)
  /\ Len(probe.ctx.headers[<<"x-", "forwarded-for">>]) > 1
  /\ probe.ctx.headers[<<"x-", "forwarded-for">>][1] = " "
  /\ NonEmpty(<<"x-", "real-ip">>)
  /\ probe.clientIp = Str(<<"5">>)

\* the header name is on the allow-list
Listed(name) == \E i \in 1..Len(allHeaders) : allHeaders[i] = name

\* C17 as stated: networkHeaders holds exactly the present headers whose name
\* is on the allow-list or begins with x-, each with the request's value.
C17_ExactlyListedOrPrefixed ==
  probe.done =>
    /\ DOMAIN probe.networkHeaders =
         {n \in DOMAIN probe.ctx.headers : Listed(n) \/ n[1] = "x-"}
    /\ \A n \in DOMAIN probe.networkHeaders :
         probe.networkHeaders[n] = probe.ctx.headers[n]

\* C17, amended: networkHeaders holds every header present with a non-empty
\* value whose name is on the allow-list or begins with x-, holds only
\* present headers of such names, each with the request's value, and omits
\* an allow-listed header without the x- prefix whose value is empty.
C17_NonEmptyListedOrPrefixed ==
  probe.done =>
    /\ \A n \in DOMAIN probe.ctx.headers :
         /\ ((Listed(n) \/ n[1] = "x-") /\ NonEmpty(n)) =>
              n \in DOMAIN probe.networkHeaders
         /\ (Listed(n) /\ n[1] # "x-" /\ ~NonEmpty(n)) =>
              n \notin DOMAIN probe.networkHeaders
    /\ \A n \in DOMAIN probe.networkHeaders :
         /\ Present(n)
         /\ Listed(n) \/ n[1] = "x-"
         /\ probe.networkHeaders[n] = probe.ctx.headers[n]

C17_Witness ==
  /\ probe.done
  /\ Present(<<"us", "er-agent">>)
  /\ Present(<<"vi", "a">>) /\ ~NonEmpty(<<"vi", "a">>)
  /\ NonEmpty(<<"x-", "custom">>)
  /\ NonEmpty(<<"cf", "-connecting-ip">>)
  /\ DOMAIN probe.networkHeaders =
       {<<"x-", "custom">>, <<"cf", "-connecting-ip">>}

\* C18: no key of networkHeaders has an empty value.
C18_NoEmptyValue ==
  probe.done =>
    \A n \in DOMAIN probe.networkHeaders : probe.networkHeaders[n] # <<>>

\* C21: a retrieval of an id that a single submission writes, without a
\* failure of the write, is answered 404 or 200 with the complete record of
\* that submission, whatever the progress of the write when it runs.
C21_WriteObservedAtomically ==
  \A g \in GetsDone :
    req[g].gid \in GenIds =>
      \A w \in writers[req[g].gid] :
        (writers[req[g].gid] = {w} /\ req[w].resp.status # 500) =>
          \/ req[g].resp.status = 404
          \/ /\ req[g].resp.status = 200
             /\ req[g].resp.body = parse(stringify(req[w].dataToStore))

\* C22: every id generateReferenceId produces passes the format check of the
\* GET handler, so a retrieval of it is never answered 400.
C22_GeneratedIdAccepted ==
  probe.done =>
    /\ FormatOk(probe.id)
    /\ GetHandle(Idle, probe.id).resp.status # 400

C22_Witness ==
  /\ probe.done
  /\ probe.id[PlaceOf(probe.call)] \in Digit
  /\ GetHandle(Idle, probe.id).resp.status = 404

\* the calls of submitDiagnostics whose request has not settled
InFlight(pg) == {c \in 1..Len(pg.calls) : pg.calls[c].pc # "done"}

Succeeded(pg) == \E c \in 1..Len(pg.calls) : pg.calls[c].outcome = "success"

\* C23: at most one request of the page is in flight, and the button is
\* disabled while it is; the button is hidden exactly after a success, and
\* then no request is in flight; every request was sent by a click, and a
\* click sends only when no request is in flight and none has succeeded; the
\* button is re-enabled only in a step in which the request in flight fails.
C23_OneSubmissionInFlight ==
  [][ /\ Cardinality(InFlight(page')) <= 1
      /\ InFlight(page') # {} => page'.submitBtn.disabled
      /\ page'.submitBtn.display = "none" <=> Succeeded(page')
      /\ Succeeded(page') => (InFlight(page') = {} /\ page'.submitBtn.disabled)
      /\ page'.sent = page'.clicks
      /\ page'.sent # page.sent =>
           (InFlight(page) = {} /\ ~Succeeded(page))
      /\ (page.submitBtn.disabled /\ ~page'.submitBtn.disabled) =>
           \E c \in InFlight(page) : page'.calls[c].outcome = "failed"
    ]_vars

C23_Witness ==
  /\ page.open
  /\ Len(page.calls) = 2
  /\ page.calls[1].outcome = "failed"
  /\ page.calls[2].outcome = "success"
  /\ page.submitBtn.display = "none"

====
